---------------------------- MODULE Spec2Model ----------------------------
(***************************************************************************)
(* The notebook "Coalesce Affects Parallelism" as a state machine.         *)
(*                                                                         *)
(* The driver (the notebook's own Python code) runs its cells in order:    *)
(* the example usage of timer, the four timed experiments, and the final   *)
(* sc.cancelAllJobs().  Each experiment is a Python 2 map over range(10)   *)
(* of timer(lambda: <engine call>).  The engine (Spark) is the             *)
(* environment: it plans a job into stages and tasks, runs the tasks on    *)
(* its cores and commits the result, or fails the job.                     *)
(*                                                                         *)
(* Time is counted in whole seconds.  A second passes only while some      *)
(* slow_func call sleeps, and only once the engine has nothing left to     *)
(* start, or as the latency the engine needs to schedule a job, which is   *)
(* the same for every job of a run.                                        *)
(***************************************************************************)
EXTENDS Integers, Sequences, FiniteSets, TLC

\* ------------------------------------------------------------- constants

\* range(10): the input sizes of every experiment cell
NumSizes == 10
\* time.sleep(1) in slow_func
SleepSeconds == 1
\* timer(lambda: slow_func(10))
ExampleArg == 10
\* coalesce(1) / repartition(1)
TargetPartitions == 1

\* ---------------------------------------------------------------- bounds

\* largest sc.defaultParallelism (= number of cores) considered
MaxParallelism == 3
\* largest per-job scheduling latency, in seconds, considered
MaxOverhead == 1

\* ---------------------------------------------------------------- helpers

Min(a, b) == IF a < b THEN a ELSE b
Max(a, b) == IF a < b THEN b ELSE a

RECURSIVE Flatten(_)
Flatten(ss) == IF ss = <<>> THEN <<>> ELSE Head(ss) \o Flatten(Tail(ss))

Elems(s) == {s[i] : i \in 1..Len(s)}

\* ------------------------------------------------------- the notebook code

\* the cancel cell moved up, in front of the last experiment
CellsCancelEarly ==
    <<"example", "rdd", "frame", "offending", "cancel", "repartition">>

\* The code cells in execution order (the setup cells make up Init).
Cells == <<"example", "rdd", "frame", "offending", "repartition", "cancel">>

Experiments == {"rdd", "frame", "offending", "repartition"}

\* the repartition cell without its .map(slow_func)
MappedNotRepartition(e) == e \in {"rdd", "offending"}

\* .map(slow_func) is part of the cell's pipeline
Mapped(e) == e \in {"rdd", "offending", "repartition"}

\* the offending cell with repartition(1) in place of coalesce(1)
ReducerAllRepartition(e) ==
    IF e \in {"offending", "repartition"} THEN "repartition"
    ELSE IF e = "frame" THEN "coalesce" ELSE "none"

\* the repartition cell with coalesce(1) in place of repartition(1)
ReducerAllCoalesce(e) ==
    IF e \in {"frame", "offending", "repartition"} THEN "coalesce" ELSE "none"

\* the partition-reducing operator the cell applies before the write
Reducer(e) ==
    CASE e = "frame"       -> "coalesce"
      [] e = "offending"   -> "coalesce"
      [] e = "repartition" -> "repartition"
      [] OTHER             -> "none"

\* .write.mode("overwrite").parquet(path) ends the cell's pipeline
Writes(e) == e \in {"frame", "offending", "repartition"}

\* .mode("append")
WriteModeAppend == "append"

\* .mode("overwrite")
WriteMode == "overwrite"

\* range(x)
Range(n) == [i \in 1..n |-> i - 1]

\* slow_func returning something other than its argument
slow_func_changed(ping) == ping + 1

\* def slow_func(ping): time.sleep(1); return(ping)  -- the value returned
slow_func(ping) == ping

VARIABLES
    defaultParallelism, \* sc.defaultParallelism, also the number of cores
    overhead,           \* the engine's per-job scheduling latency
    cell,               \* index into Cells of the cell being executed
    x,                  \* the element of range(10) the cell's map is at
    pc,                 \* driver position: ready, timed, blocked, returned, done, failed
    now,                \* time.time()
    start_time,         \* timer's local start_time
    invocations,        \* how often the running timer call has invoked func
    opStart, opEnd,     \* clock when func was entered / when it returned
    ret,                \* <<value>> returned by the latest timer call, or <<>>
    acc,                \* the list the cell's map has built so far
    out,                \* the finished list of each experiment cell (its Out[])
    exampleOut,         \* <<value>> shown by the example usage cell, or <<>>
    drvLeft,            \* seconds the driver still sleeps in a local slow_func
    lastCall,           \* <<[arg, val, t0, t1]>> of the latest slow_func return
    jobs,               \* ids <<cell name, x>> of the jobs in flight
    jid,                \* id of the job the engine's tasks belong to
    stage,              \* stage of that job being run (0: none)
    tasks,              \* the tasks of that stage
    shuffle,            \* per map task, the rows it has handed to the shuffle
    ovh,                \* scheduling latency spent on the job so far
    calls,              \* slow_func calls made for the job so far
    peak,               \* most tasks inside slow_func at once during the job
    taken,              \* the list take(x) returned last
    path,               \* the part files at "~/tmp.parquet", each a row list
    path0,              \* what the path held before the notebook ran
    lastWrite,          \* <<id>> of the latest committed write, or <<>>
    hist,               \* per experiment, what each completed job did
    failure,            \* <<[id, cause]>> of the failed job, or <<>>
    cancels             \* number of sc.cancelAllJobs() calls issued

driverVars == <<cell, x, pc, start_time, invocations, opStart, opEnd, ret, acc,
                out, exampleOut>>
engineVars == <<jobs, jid, stage, tasks, shuffle, ovh, calls, peak, taken, path,
                lastWrite, hist, failure>>
vars == <<defaultParallelism, overhead, now, drvLeft, lastCall, path0, cancels,
          driverVars, engineVars>>

Cell == IF cell <= Len(Cells) THEN Cells[cell] ELSE "end"

\* ------------------------------------------------------------ the engine

\* sc.parallelize(range(n)): the rows of slice i (0-based) of P slices
Slice(n, P, i) ==
    LET lo == (i * n) \div P
        hi == ((i + 1) * n) \div P
    IN  [k \in 1..(hi - lo) |-> lo + k - 1]

\* a task that has not been launched yet
Task(input, fn) ==
    [in |-> input, fn |-> fn, st |-> "pending", left |-> 0, t0 |-> 0, out |-> <<>>]

\* coalesce(k) without a shuffle: output partition g (0-based) reads the
\* parent partitions mapped to it, in order, inside one task
CoalescedInput(n, P, k, g) ==
    Flatten([i \in 1..P |-> IF ((i - 1) * k) \div P = g
                            THEN Slice(n, P, i - 1) ELSE <<>>])

\* the tasks of the first stage of the job of experiment e on range(n)
FirstStage(e, n, P) ==
    IF Reducer(e) = "coalesce"
    THEN LET k == Min(TargetPartitions, P)
         IN  [g \in 1..k |-> Task(CoalescedInput(n, P, k, g - 1), Mapped(e))]
    ELSE [i \in 1..P |-> Task(Slice(n, P, i - 1), Mapped(e))]

\* repartition(k): the stage after the shuffle; it reads the map tasks'
\* blocks in task order and task g takes every k-th row
SecondStage(blocks, k) ==
    LET rows == Flatten(blocks)
    IN  [g \in 1..k |->
            Task([j \in 1..(IF Len(rows) < g THEN 0
                            ELSE (Len(rows) - g) \div k + 1)
                     |-> rows[g + (j - 1) * k]], FALSE)]

\* the job has a stage behind a shuffle still to run
HasShuffle(e) == Reducer(e) = "repartition"

Sleeping == {i \in 1..Len(tasks) : tasks[i].st = "sleeping"}
Active   == {i \in 1..Len(tasks) : tasks[i].st \in {"running", "sleeping"}}
AllDone  == \A i \in 1..Len(tasks) : tasks[i].st = "done"

\* what .write.mode(m).parquet(path) leaves at the path
Written(m, old, parts) == IF m = "overwrite" THEN parts ELSE old \o parts

\* -------------------------------------------------------------- Init

Init ==
    /\ defaultParallelism \in 1..MaxParallelism
    /\ overhead \in 0..MaxOverhead
    /\ path0 \in {<<>>, << <<41, 42>> >>}
    /\ path = path0
    /\ cell = 1 /\ x = 0 /\ pc = "ready"
    /\ now = 0 /\ start_time = 0
    /\ invocations = 0 /\ opStart = 0 /\ opEnd = 0
    /\ ret = <<>> /\ acc = <<>> /\ exampleOut = <<>>
    /\ out = [e \in Experiments |-> <<>>]
    /\ drvLeft = 0 /\ lastCall = <<>>
    /\ jobs = {} /\ jid = <<>> /\ stage = 0 /\ tasks = <<>> /\ shuffle = <<>>
    /\ ovh = 0 /\ calls = 0 /\ peak = 0 /\ taken = <<>>
    /\ lastWrite = <<>>
    /\ hist = [e \in Experiments |-> <<>>]
    /\ failure = <<>>
    /\ cancels = 0

\* ------------------------------------------------------------ the driver

\* timer: start_time = time.time()
TimerStart ==
    /\ pc = "ready"
    /\ \/ Cell = "example"
       \/ Cell \in Experiments /\ x < NumSizes
    /\ start_time' = now
    /\ invocations' = 0
    /\ ret' = <<>>
    /\ pc' = "timed"
    /\ UNCHANGED <<defaultParallelism, overhead, now, drvLeft, lastCall, path0,
                   cancels, cell, x, opStart, opEnd, acc, out, exampleOut,
                   engineVars>>

\* timer: func(), where func is lambda: slow_func(10); the driver sleeps
FuncCallLocal ==
    /\ pc = "timed"
    /\ Cell = "example"
    /\ drvLeft' = SleepSeconds
    /\ invocations' = invocations + 1
    /\ opStart' = now
    /\ pc' = "blocked"
    /\ UNCHANGED <<defaultParallelism, overhead, now, lastCall, path0, cancels,
                   cell, x, start_time, opEnd, ret, acc, out, exampleOut,
                   engineVars>>

\* timer: func(), where func builds the cell's pipeline on range(x) and calls
\* the action that ends it (take or parquet): one job is submitted
FuncCallJob ==
    /\ pc = "timed"
    /\ Cell \in Experiments
    /\ jobs' = jobs \cup {<<Cell, x>>}
    /\ jid' = <<Cell, x>>
    /\ stage' = 1
    /\ tasks' = FirstStage(Cell, x, defaultParallelism)
    /\ shuffle' = [i \in 1..Len(FirstStage(Cell, x, defaultParallelism)) |-> <<>>]
    /\ ovh' = 0 /\ calls' = 0 /\ peak' = 0
    /\ invocations' = invocations + 1
    /\ opStart' = now
    /\ pc' = "blocked"
    /\ UNCHANGED <<defaultParallelism, overhead, now, drvLeft, lastCall, path0,
                   cancels, cell, x, start_time, opEnd, ret, acc, out,
                   exampleOut, taken, path, lastWrite, hist, failure>>

\* slow_func(10) wakes up and returns in the driver, and so does func
FuncReturnLocal ==
    /\ pc = "blocked"
    /\ Cell = "example"
    /\ drvLeft = 0
    /\ lastCall' = <<[arg |-> ExampleArg, val |-> slow_func(ExampleArg),
                      t0 |-> opStart, t1 |-> now]>>
    /\ opEnd' = now
    /\ pc' = "returned"
    /\ UNCHANGED <<defaultParallelism, overhead, now, drvLeft, path0, cancels,
                   cell, x, start_time, invocations, opStart, ret, acc, out,
                   exampleOut, engineVars>>

\* an engine call that returns as soon as the job is submitted
CallReturnsAtOnce == TRUE

\* the blocking engine call returns once the job it submitted is over
CallReturns == <<Cell, x>> \notin jobs

FuncReturnJob ==
    /\ pc = "blocked"
    /\ Cell \in Experiments
    /\ failure = <<>>
    /\ CallReturns
    /\ opEnd' = now
    /\ pc' = "returned"
    /\ UNCHANGED <<defaultParallelism, overhead, now, drvLeft, lastCall, path0,
                   cancels, cell, x, start_time, invocations, opStart, ret, acc,
                   out, exampleOut, engineVars>>

\* timer with the subtraction the wrong way round
TimerResultSwapped == start_time - now

\* timer: return time.time() - start_time
TimerResult == now - start_time

\* timer returns; the example cell shows the value, an experiment cell's map
\* appends it to its list and moves on to the next element of range(10)
TimerReturn ==
    /\ pc = "returned"
    /\ ret' = <<TimerResult>>
    /\ IF Cell = "example"
       THEN /\ exampleOut' = <<TimerResult>>
            /\ cell' = cell + 1
            /\ UNCHANGED <<x, acc>>
       ELSE /\ acc' = Append(acc, [n |-> x, d |-> TimerResult])
            /\ x' = x + 1
            /\ UNCHANGED <<cell, exampleOut>>
    /\ pc' = "ready"
    /\ UNCHANGED <<defaultParallelism, overhead, now, drvLeft, lastCall, path0,
                   cancels, start_time, invocations, opStart, opEnd, out,
                   engineVars>>

\* map(..., range(10)) has consumed range(10): the list is the cell's value
CellEnd ==
    /\ pc = "ready"
    /\ Cell \in Experiments
    /\ x = NumSizes
    /\ out' = [out EXCEPT ![Cell] = acc]
    /\ acc' = <<>>
    /\ x' = 0
    /\ cell' = cell + 1
    /\ UNCHANGED <<defaultParallelism, overhead, now, drvLeft, lastCall, path0,
                   cancels, pc, start_time, invocations, opStart, opEnd, ret,
                   exampleOut, engineVars>>

\* sc.cancelAllJobs()
CancelAllJobs ==
    /\ pc = "ready"
    /\ Cell = "cancel"
    /\ cancels' = cancels + 1
    /\ jobs' = {}
    /\ cell' = cell + 1
    /\ UNCHANGED <<defaultParallelism, overhead, now, drvLeft, lastCall, path0,
                   x, pc, start_time, invocations, opStart, opEnd, ret, acc, out,
                   exampleOut, jid, stage, tasks, shuffle, ovh, calls, peak,
                   taken, path, lastWrite, hist, failure>>

\* the last cell has run
NotebookEnd ==
    /\ pc = "ready"
    /\ Cell = "end"
    /\ pc' = "done"
    /\ UNCHANGED <<defaultParallelism, overhead, now, drvLeft, lastCall, path0,
                   cancels, cell, x, start_time, invocations, opStart, opEnd,
                   ret, acc, out, exampleOut, engineVars>>

\* timer with an except clause around func(): the failure is swallowed and
\* timer goes on to return a duration
FuncRaisesCaught ==
    /\ pc = "blocked"
    /\ failure # <<>>
    /\ opEnd' = now
    /\ pc' = "returned"
    /\ UNCHANGED <<defaultParallelism, overhead, now, drvLeft, lastCall, path0,
                   cancels, cell, x, start_time, invocations, opStart, ret, acc,
                   out, exampleOut, engineVars>>

\* the engine call raises: nothing in timer, the lambdas or the cell catches
\* it, so timer returns nothing, map's list is dropped, the cell has no value
\* and the session shows the error
FuncRaises ==
    /\ pc = "blocked"
    /\ failure # <<>>
    /\ acc' = <<>>
    /\ pc' = "failed"
    /\ UNCHANGED <<defaultParallelism, overhead, now, drvLeft, lastCall, path0,
                   cancels, cell, x, start_time, invocations, opStart, opEnd,
                   ret, out, exampleOut, engineVars>>

\* ------------------------------------------------------- the engine runs

\* the scheduler gives a free core to a task, once the job has been scheduled
TaskLaunch(i) ==
    /\ jid \in jobs
    /\ tasks[i].st = "pending"
    /\ ovh = overhead
    /\ Cardinality(Active) < defaultParallelism
    /\ tasks' = [tasks EXCEPT ![i].st = "running"]
    /\ UNCHANGED <<defaultParallelism, overhead, now, drvLeft, lastCall, path0,
                   cancels, driverVars, jobs, jid, stage, shuffle, ovh, calls,
                   peak, taken, path, lastWrite, hist, failure>>

\* .map(slow_func): the task calls slow_func on its next row, which sleeps
TaskCall(i) ==
    /\ jid \in jobs
    /\ tasks[i].st = "running"
    /\ tasks[i].fn
    /\ tasks[i].in # <<>>
    /\ tasks' = [tasks EXCEPT ![i].st = "sleeping", ![i].left = SleepSeconds,
                              ![i].t0 = now]
    /\ calls' = calls + 1
    /\ peak' = Max(peak, Cardinality(Sleeping) + 1)
    /\ UNCHANGED <<defaultParallelism, overhead, now, drvLeft, lastCall, path0,
                   cancels, driverVars, jobs, jid, stage, shuffle, ovh, taken,
                   path, lastWrite, hist, failure>>

\* slow_func wakes up and returns; its value is the task's next output row
TaskReturn(i) ==
    /\ jid \in jobs
    /\ tasks[i].st = "sleeping"
    /\ tasks[i].left = 0
    /\ tasks' = [tasks EXCEPT ![i].st = "running",
                              ![i].in = Tail(@),
                              ![i].out = Append(@, slow_func(Head(tasks[i].in)))]
    /\ lastCall' = <<[arg |-> Head(tasks[i].in),
                      val |-> slow_func(Head(tasks[i].in)),
                      t0 |-> tasks[i].t0, t1 |-> now]>>
    /\ UNCHANGED <<defaultParallelism, overhead, now, drvLeft, path0, cancels,
                   driverVars, jobs, jid, stage, shuffle, ovh, calls, peak,
                   taken, path, lastWrite, hist, failure>>

\* a task of a stage without slow_func passes its rows on as they are
TaskPass(i) ==
    /\ jid \in jobs
    /\ tasks[i].st = "running"
    /\ ~tasks[i].fn
    /\ tasks[i].in # <<>>
    /\ tasks' = [tasks EXCEPT ![i].in = <<>>, ![i].out = @ \o tasks[i].in]
    /\ UNCHANGED <<defaultParallelism, overhead, now, drvLeft, lastCall, path0,
                   cancels, driverVars, jobs, jid, stage, shuffle, ovh, calls,
                   peak, taken, path, lastWrite, hist, failure>>

\* a task has consumed its input; before a shuffle it hands its rows to it
TaskFinish(i) ==
    /\ jid \in jobs
    /\ tasks[i].st = "running"
    /\ tasks[i].in = <<>>
    /\ tasks' = [tasks EXCEPT ![i].st = "done"]
    /\ shuffle' = IF HasShuffle(jid[1]) /\ stage = 1
                  THEN [shuffle EXCEPT ![i] = tasks[i].out] ELSE shuffle
    /\ UNCHANGED <<defaultParallelism, overhead, now, drvLeft, lastCall, path0,
                   cancels, driverVars, jobs, jid, stage, ovh, calls, peak,
                   taken, path, lastWrite, hist, failure>>

\* repartition(1): the map stage is over, the stage behind the shuffle starts
StageBoundary ==
    /\ jid \in jobs
    /\ HasShuffle(jid[1])
    /\ stage = 1
    /\ AllDone
    /\ tasks' = SecondStage(shuffle, TargetPartitions)
    /\ stage' = 2
    /\ UNCHANGED <<defaultParallelism, overhead, now, drvLeft, lastCall, path0,
                   cancels, driverVars, jobs, jid, shuffle, ovh, calls, peak,
                   taken, path, lastWrite, hist, failure>>

\* the last stage is over: the job's partitions are written to the path, or
\* their first x rows are handed back by take(x); the job is complete
JobCommit ==
    /\ jid \in jobs
    /\ AllDone
    /\ HasShuffle(jid[1]) => stage = 2
    /\ LET parts == [i \in 1..Len(tasks) |-> tasks[i].out]
           rows  == Flatten(parts)
       IN  /\ IF Writes(jid[1])
              THEN /\ path' = Written(WriteMode, path, parts)
                   /\ lastWrite' = <<jid>>
                   /\ UNCHANGED taken
              ELSE /\ taken' = SubSeq(rows, 1, Min(jid[2], Len(rows)))
                   /\ UNCHANGED <<path, lastWrite>>
           /\ hist' = [hist EXCEPT ![jid[1]] =
                          Append(@, [n |-> jid[2], calls |-> calls, peak |-> peak,
                                     rows |-> Elems(rows), nrows |-> Len(rows),
                                     parts |-> Len(parts)])]
    /\ jobs' = jobs \ {jid}
    /\ stage' = 0
    /\ tasks' = <<>>
    /\ UNCHANGED <<defaultParallelism, overhead, now, drvLeft, lastCall, path0,
                   cancels, driverVars, jid, shuffle, ovh, calls, peak, failure>>

\* the job fails (it is cancelled from outside, the cluster runs out of
\* memory, the path cannot be written); a failed overwrite may already have
\* removed what the path held
JobFail(cause) ==
    /\ jid \in jobs
    /\ failure = <<>>
    /\ cause = "permission" => Writes(jid[1])
    /\ failure' = <<[id |-> jid, cause |-> cause]>>
    /\ jobs' = jobs \ {jid}
    /\ stage' = 0
    /\ tasks' = <<>>
    /\ shuffle' = <<>>
    /\ ovh' = 0 /\ calls' = 0 /\ peak' = 0
    /\ path' \in (IF Writes(jid[1]) THEN {path, <<>>} ELSE {path})
    /\ UNCHANGED <<defaultParallelism, overhead, now, drvLeft, lastCall, path0,
                   cancels, driverVars, jid, taken, lastWrite, hist>>

\* ------------------------------------------------------------------ time

\* a second passes while slow_func sleeps, in the driver or in every task
\* that is inside it; the engine has no step left it could take first
SleepTick ==
    /\ \/ drvLeft > 0
       \/ /\ Sleeping # {}
          /\ \A i \in 1..Len(tasks) :
                /\ tasks[i].st # "running"
                /\ tasks[i].st = "sleeping" => tasks[i].left > 0
                /\ tasks[i].st = "pending" =>
                       Cardinality(Active) >= defaultParallelism
    /\ now' = now + 1
    /\ drvLeft' = Max(drvLeft - 1, 0)
    /\ tasks' = [i \in 1..Len(tasks) |->
                    IF tasks[i].st = "sleeping"
                    THEN [tasks[i] EXCEPT !.left = @ - 1] ELSE tasks[i]]
    /\ UNCHANGED <<defaultParallelism, overhead, lastCall, path0, cancels,
                   driverVars, jobs, jid, stage, shuffle, ovh, calls, peak,
                   taken, path, lastWrite, hist, failure>>

\* a second passes before the engine has scheduled the submitted job
OverheadTick ==
    /\ jid \in jobs
    /\ stage = 1
    /\ \A i \in 1..Len(tasks) : tasks[i].st = "pending"
    /\ ovh < overhead
    /\ now' = now + 1
    /\ ovh' = ovh + 1
    /\ UNCHANGED <<defaultParallelism, overhead, drvLeft, lastCall, path0,
                   cancels, driverVars, jobs, jid, stage, tasks, shuffle, calls,
                   peak, taken, path, lastWrite, hist, failure>>

\* -------------------------------------------------------- specification

Causes == {"cancelled", "oom", "permission"}

Next ==
    \/ TimerStart
    \/ FuncCallLocal
    \/ FuncCallJob
    \/ FuncReturnLocal
    \/ FuncReturnJob
    \/ TimerReturn
    \/ CellEnd
    \/ CancelAllJobs
    \/ NotebookEnd
    \/ FuncRaises
    \/ \E i \in 1..Len(tasks) : TaskLaunch(i)
    \/ \E i \in 1..Len(tasks) : TaskCall(i)
    \/ \E i \in 1..Len(tasks) : TaskReturn(i)
    \/ \E i \in 1..Len(tasks) : TaskPass(i)
    \/ \E i \in 1..Len(tasks) : TaskFinish(i)
    \/ StageBoundary
    \/ JobCommit
    \/ \E cause \in Causes : JobFail(cause)
    \/ SleepTick
    \/ OverheadTick

Spec == Init /\ [][Next]_vars

\* every step that can be taken is eventually taken: the driver runs on and
\* the engine finishes or fails every job it was given
FairSpec == Spec /\ WF_vars(Next)

\* ------------------------------------------------------------ properties

\* the durations recorded so far for experiment e
Recorded(e) == IF Cell = e /\ pc # "failed" THEN acc ELSE out[e]

\* C1: while a job of the coalesce(1)-after-map cell runs, its map stage has
\* as many tasks as coalesced partitions and at most 1 task is inside
\* slow_func, for every input size; while a job of the repartition(1) cell
\* runs, up to min(N, defaultParallelism) tasks are inside slow_func, and
\* that many are at the same time in every completed job.
C1_CoalesceConstrainsUpstream ==
    /\ jid \in jobs /\ jid[1] = "offending" =>
          /\ Len(tasks) = TargetPartitions
          /\ Cardinality(Sleeping) <= 1
    /\ jid \in jobs /\ jid[1] = "repartition" =>
          Cardinality(Sleeping) <= Min(jid[2], defaultParallelism)
    /\ \A k \in 1..Len(hist["offending"]) :
          hist["offending"][k].peak = Min(hist["offending"][k].n, 1)
    /\ \A k \in 1..Len(hist["repartition"]) :
          hist["repartition"][k].peak =
              Min(hist["repartition"][k].n, defaultParallelism)

C1_Witness ==
    /\ defaultParallelism >= 2
    /\ Len(hist["offending"]) = NumSizes
    /\ hist["offending"][NumSizes].peak = 1
    /\ jid \in jobs /\ jid[1] = "repartition" /\ jid[2] >= 2
    /\ Cardinality(Sleeping) = Min(jid[2], defaultParallelism)

\* C2: counted in seconds slept by slow_func, the durations the coalesce(1)
\* cell records grow by one second per additional row, and the durations the
\* repartition(1) cell records for inputs of at most defaultParallelism rows
\* stay below one bound that does not depend on the input size.
C2_LinearVersusFlat ==
    /\ \A k \in 1..Len(Recorded("offending")) :
          /\ Recorded("offending")[k].d =
                 Recorded("offending")[k].n * SleepSeconds + overhead
          /\ k > 1 => Recorded("offending")[k].d =
                          Recorded("offending")[k - 1].d + SleepSeconds
    /\ \A k \in 1..Len(Recorded("repartition")) :
          Recorded("repartition")[k].n <= defaultParallelism =>
              Recorded("repartition")[k].d <= SleepSeconds + overhead

C2_Witness ==
    /\ defaultParallelism >= 3
    /\ Len(out["offending"]) = NumSizes
    /\ out["offending"][NumSizes].d >= NumSizes - 1
    /\ Len(Recorded("repartition")) >= 4
    /\ Recorded("repartition")[4].d = Recorded("repartition")[2].d

\* C3: every slow_func call returns its argument, no sooner than one second
\* after it was made, and a collection slow_func was mapped over comes out
\* with the same elements, as many as went in.
C3_SlowFuncIsIdentity ==
    /\ lastCall # <<>> =>
          /\ lastCall[1].val = lastCall[1].arg
          /\ lastCall[1].t1 - lastCall[1].t0 >= 1
    /\ \A e \in Experiments : \A k \in 1..Len(hist[e]) :
          Mapped(e) =>
              /\ hist[e][k].rows = 0..(hist[e][k].n - 1)
              /\ hist[e][k].nrows = hist[e][k].n
              /\ hist[e][k].calls = hist[e][k].n
    /\ hist["rdd"] # <<>> => taken = Range(hist["rdd"][Len(hist["rdd"])].n)

C3_Witness ==
    /\ Len(hist["rdd"]) = NumSizes
    /\ taken = Range(NumSizes - 1)
    /\ lastCall # <<>> /\ lastCall[1].arg = NumSizes - 2

\* C4: a timer call invokes func once, reads the clock before func is
\* entered and again after func has returned, and returns the difference,
\* which is never less than the time func took; the example usage
\* timer(lambda: slow_func(10)) returns at least 1.
C4_TimerMeasuresOneInvocation ==
    /\ invocations <= 1
    /\ pc \in {"blocked", "returned"} => invocations = 1 /\ start_time <= opStart
    /\ ret # <<>> =>
          /\ invocations = 1
          /\ start_time <= opStart
          /\ opStart <= opEnd
          /\ opEnd <= start_time + ret[1]
          /\ ret[1] >= opEnd - opStart
    /\ exampleOut # <<>> => exampleOut[1] >= 1

C4_Witness ==
    /\ exampleOut # <<>>
    /\ Cell = "offending"
    /\ pc = "ready"
    /\ ret # <<>> /\ ret[1] >= 3 /\ opEnd - opStart >= 3

\* C5: at most one job is in flight, and only while the driver is blocked in
\* the call that submitted it; the durations of a cell are recorded for the
\* input sizes 0, 1, 2, ... in this order, and an experiment has recorded
\* durations only when every experiment before it has recorded all of its.
C5_SequentialAndBlocking ==
    /\ Cardinality(jobs) <= 1
    /\ jobs # {} =>
          /\ pc = "blocked"
          /\ jobs = {<<Cell, x>>}
          /\ Len(acc) = x
    /\ \A k \in 1..Len(acc) : acc[k].n = k - 1
    /\ \A i \in 1..Len(Cells) : Cells[i] \in Experiments =>
          /\ \A k \in 1..Len(out[Cells[i]]) : out[Cells[i]][k].n = k - 1
          /\ Len(out[Cells[i]]) \in {0, NumSizes}
          /\ i >= cell => out[Cells[i]] = <<>>
          /\ i > cell => hist[Cells[i]] = <<>>
          /\ i < cell => Len(out[Cells[i]]) = NumSizes
          /\ i = cell /\ pc # "failed" => Len(hist[Cells[i]]) \in {x, x + 1}
          /\ i = cell /\ pc \in {"ready", "timed"} => Len(hist[Cells[i]]) = x

C5_Witness ==
    /\ Cell = "repartition"
    /\ jobs = {<<"repartition", 5>>}
    /\ Len(acc) = 5
    /\ Len(out["offending"]) = NumSizes

\* C6: as long as no write has failed, the path holds what it held before
\* the notebook ran until the first write commits (the example and the simple
\* RDD cell leave it alone), and from then on exactly the rows range(x) of
\* the latest committed write, whichever DataFrame cell made it, in one part.
C6_PathHoldsLatestWrite ==
    failure = <<>> =>
        /\ Cell \in {"example", "rdd"} => path = path0 /\ lastWrite = <<>>
        /\ lastWrite = <<>> => path = path0
        /\ lastWrite # <<>> =>
              /\ Writes(lastWrite[1][1])
              /\ Len(path) = TargetPartitions
              /\ Len(Flatten(path)) = lastWrite[1][2]
              /\ Elems(Flatten(path)) = 0..(lastWrite[1][2] - 1)

C6_Witness ==
    /\ path0 # <<>>
    /\ failure = <<>>
    /\ lastWrite = << <<"repartition", 3>> >>
    /\ Len(hist["frame"]) = NumSizes
    /\ Len(hist["offending"]) = NumSizes
    /\ Elems(Flatten(path)) = {0, 1, 2}

\* the notebook has stopped running cells
Halted == pc \in {"done", "failed"}

AllExperimentsDone == \A e \in Experiments : Len(out[e]) = NumSizes

C8_FailuresPropagate ==
    /\ [](failure # <<>> =>
             /\ pc \in {"blocked", "failed"}
             /\ failure[1].id = <<Cell, x>>
             /\ ret = <<>>
             /\ out[Cell] = <<>>
             /\ \A k \in 1..Len(acc) : acc[k].n < x
             /\ pc = "failed" => acc = <<>>
             /\ \A i \in 1..(cell - 1) : Cells[i] \in Experiments =>
                   Len(out[Cells[i]]) = NumSizes)
    /\ [][failure' # <<>> => out' = out /\ exampleOut' = exampleOut]_vars

C8_Witness ==
    /\ pc = "failed"
    /\ failure # <<>> /\ failure[1].id = <<"offending", 4>>
    /\ failure[1].cause = "cancelled"
    /\ Len(out["rdd"]) = NumSizes /\ Len(out["frame"]) = NumSizes
    /\ out["offending"] = <<>>

\* C9: the largest dataset each DataFrame experiment cell builds and writes
\* has exactly 10 rows.
C9_LargestDatasetHasTenRows ==
    \A e \in Experiments :
        Writes(e) /\ Len(hist[e]) = NumSizes =>
            \E k \in 1..NumSizes :
                /\ hist[e][k].nrows = 10
                /\ \A j \in 1..NumSizes : hist[e][j].nrows <= hist[e][k].nrows

\* C10: for every input size, the job of the coalesce(1) cell and the job of
\* the repartition(1) cell call slow_func the same number of times, once per
\* row, and write the same rows 0..N-1 in a single partition.
C10_SameWorkSameOutput ==
    \A k \in 1..Min(Len(hist["offending"]), Len(hist["repartition"])) :
        LET c == hist["offending"][k]
            r == hist["repartition"][k]
        IN  /\ c.n = k - 1 /\ r.n = k - 1
            /\ c.calls = r.calls /\ c.calls = c.n
            /\ c.rows = r.rows /\ c.rows = 0..(c.n - 1)
            /\ c.nrows = r.nrows /\ c.nrows = c.n
            /\ c.parts = r.parts /\ c.parts = 1

C10_Witness ==
    /\ defaultParallelism >= 2
    /\ Len(hist["offending"]) = NumSizes
    /\ Len(hist["repartition"]) = NumSizes
    /\ hist["repartition"][NumSizes].calls = NumSizes - 1
    /\ hist["repartition"][NumSizes].peak >= 2

====
